---------------------------- MODULE Spec2Model ----------------------------
(***************************************************************************)
(* Model of the Searchable higher-order component                          *)
(* (src/src/ui/components/searchable/Searchable.js).                       *)
(*                                                                         *)
(* JavaScript values are tagged records, one field per type, so that two   *)
(* values of different types are simply unequal:                           *)
(*   undefined  [undef |-> TRUE]      null     [null |-> TRUE]             *)
(*   boolean    [bool |-> b]          string   [str |-> <<characters>>]    *)
(*   array      [arr |-> <<values>>]  object   [obj |-> [field |-> value]] *)
(* A string is the sequence of its characters.  Objects are compared by    *)
(* value; where the code compares references (prevState.filters !==        *)
(* this.state.filters) the model records whether the handler installed a   *)
(* new array.                                                              *)
(***************************************************************************)
EXTENDS Integers, Sequences, FiniteSets, TLC

VARIABLES
  mounted,      \* an instance is mounted (keydown listener attached, _inputRef set)
  props,        \* this.props: [tableKey, columns, defaultFilters]
  filters,      \* this.state.filters, the sequence of filter objects
  focusedToken, \* this.state.focusedToken, 0-based, -1 for none
  searchTerm,   \* this.state.searchTerm, a sequence of characters
  hasFocusState,\* this.state.hasFocus
  domFocus,     \* the DOM input element has the keyboard focus
  blurTimers,   \* number of pending setTimeout(..., 100) callbacks of onInputBlur
  pending,      \* the pending debounced matchTags call, or NoCall
  localStorage, \* window.localStorage: key -> item text, or NoItem
  error,        \* what the last handler threw: "none" or "TypeError"
  lastOp,       \* history: the handler that ran last, [op |-> name, arg |-> what
                \* the properties need of its input and of the state it ran in]
  persisted,    \* history: key -> the props of the instance that last called
                \* setItem and the {searchTerm, filters} it wrote
  commit        \* history: the key of the token an Enter keydown asked to commit
                \* and that the debounce timer has not handled yet, or Undefined

vars == <<mounted, props, filters, focusedToken, searchTerm, hasFocusState,
          domFocus, blurTimers, pending, localStorage, error, lastOp, persisted,
          commit>>

---------------------------------------------------------------------------
(* JavaScript values *)

Undefined == [undef |-> TRUE]
Null      == [null |-> TRUE]
B(b)      == [bool |-> b]
S(chars)  == [str |-> chars]
A(seq)    == [arr |-> seq]
O(rec)    == [obj |-> rec]

IsUndef(v)  == "undef" \in DOMAIN v
IsNull(v)   == "null" \in DOMAIN v
IsBool(v)   == "bool" \in DOMAIN v
IsStr(v)    == "str" \in DOMAIN v
IsArr(v)    == "arr" \in DOMAIN v
IsObj(v)    == "obj" \in DOMAIN v
Nullish(v)  == IsUndef(v) \/ IsNull(v)

\* ToBoolean: what `if (v)` and `v || w` test
Truthy(v) ==
  IF Nullish(v) THEN FALSE
  ELSE IF IsBool(v) THEN v.bool
  ELSE IF IsStr(v) THEN v.str # <<>>
  ELSE TRUE

\* v.name for a value that is not null or undefined: own property of an
\* object, undefined for a missing property and for primitives and arrays
Get(v, name) ==
  IF IsObj(v) /\ name \in DOMAIN v.obj THEN v.obj[name] ELSE Undefined

\* a copy of object o with o.name = val
Put(o, name, val) == O((name :> val) @@ o.obj)

\* string literals of the source
INCLUDE == <<"i", "n", "c", "l", "u", "d", "e">>
EXCLUDE == <<"e", "x", "c", "l", "u", "d", "e">>
ENUM    == <<"e", "n", "u", "m">>

---------------------------------------------------------------------------
(* JSON.stringify and JSON.parse.  The text is the sequence of its JSON    *)
(* tokens: punctuation [p |-> "{"], and the literals, which are tokens and *)
(* values at once.                                                         *)

P(c) == [p |-> c]

\* the own enumerable properties of the objects of this component, in the
\* order the code creates them
PropertyOrder ==
  <<"searchTerm", "filters", "type", "key", "value", "persistent", "enum",
    "label", "color">>

RECURSIVE Join(_, _)
\* Array.prototype.join on token sequences: parts separated by sep
Join(parts, sep) ==
  IF parts = <<>> THEN <<>>
  ELSE IF Len(parts) = 1 THEN parts[1]
  ELSE parts[1] \o sep \o Join(Tail(parts), sep)

RECURSIVE JSONstringify(_)
\* JSON.stringify(v): a property whose value is undefined is left out, an
\* array element that is undefined is written as null
JSONstringify(v) ==
  IF IsArr(v) THEN
    <<P("[")>>
    \o Join([i \in 1..Len(v.arr) |->
               IF IsUndef(v.arr[i]) THEN <<Null>> ELSE JSONstringify(v.arr[i])],
            <<P(",")>>)
    \o <<P("]")>>
  ELSE IF IsObj(v) THEN
    LET names == SelectSeq(PropertyOrder,
                   LAMBDA n : n \in DOMAIN v.obj /\ ~IsUndef(v.obj[n]))
    IN  <<P("{")>>
        \o Join([i \in 1..Len(names) |->
                   <<S(names[i]), P(":")>> \o JSONstringify(v.obj[names[i]])],
                <<P(",")>>)
        \o <<P("}")>>
  ELSE <<v>>

SyntaxError == [ok |-> FALSE]
Parsed(v, n) == [ok |-> TRUE, val |-> v, next |-> n]

IsLiteral(t) == IsStr(t) \/ IsBool(t) \/ IsNull(t)

RECURSIVE ParseValue(_, _), ParseElements(_, _, _), ParseMembers(_, _, _)
\* the JSON value starting at token i
ParseValue(ts, i) ==
  IF i > Len(ts) THEN SyntaxError
  ELSE IF IsLiteral(ts[i]) THEN Parsed(ts[i], i + 1)
  ELSE IF ts[i] = P("[") THEN
    IF i + 1 <= Len(ts) /\ ts[i + 1] = P("]") THEN Parsed(A(<<>>), i + 2)
    ELSE ParseElements(ts, i + 1, <<>>)
  ELSE IF ts[i] = P("{") THEN
    IF i + 1 <= Len(ts) /\ ts[i + 1] = P("}") THEN Parsed(O(<<>>), i + 2)
    ELSE ParseMembers(ts, i + 1, <<>>)
  ELSE SyntaxError

\* the elements of an array from token i on, acc the elements read so far
ParseElements(ts, i, acc) ==
  LET r == ParseValue(ts, i) IN
  IF ~r.ok \/ r.next > Len(ts) THEN SyntaxError
  ELSE IF ts[r.next] = P(",") THEN ParseElements(ts, r.next + 1, Append(acc, r.val))
  ELSE IF ts[r.next] = P("]") THEN Parsed(A(Append(acc, r.val)), r.next + 1)
  ELSE SyntaxError

\* the members of an object from token i on; a repeated name keeps the last value
ParseMembers(ts, i, acc) ==
  IF i + 1 > Len(ts) \/ ~IsStr(ts[i]) \/ ts[i + 1] # P(":") THEN SyntaxError
  ELSE
    LET r == ParseValue(ts, i + 2) IN
    IF ~r.ok \/ r.next > Len(ts) THEN SyntaxError
    ELSE
      LET obj == (ts[i].str :> r.val) @@ acc IN
      IF ts[r.next] = P(",") THEN ParseMembers(ts, r.next + 1, obj)
      ELSE IF ts[r.next] = P("}") THEN Parsed(O(obj), r.next + 1)
      ELSE SyntaxError

\* JSON.parse(text): [ok |-> TRUE, val |-> value], or ok = FALSE for a SyntaxError
JSONparse(ts) ==
  LET r == ParseValue(ts, 1) IN
  IF r.ok /\ r.next = Len(ts) + 1 THEN [ok |-> TRUE, val |-> r.val] ELSE SyntaxError

---------------------------------------------------------------------------
(* Strings and the filter pattern of matchTags *)

LowerCase ==
  <<"a", "b", "c", "d", "e", "f", "g", "h", "i", "j", "k", "l", "m",
    "n", "o", "p", "q", "r", "s", "t", "u", "v", "w", "x", "y", "z">>
UpperCase ==
  <<"A", "B", "C", "D", "E", "F", "G", "H", "I", "J", "K", "L", "M",
    "N", "O", "P", "Q", "R", "S", "T", "U", "V", "W", "X", "Y", "Z">>
Digits == {"0", "1", "2", "3", "4", "5", "6", "7", "8", "9"}

Range(seq) == {seq[i] : i \in DOMAIN seq}

Letters == Range(LowerCase) \cup Range(UpperCase)

\* [a-z] under the i flag
IsLetter(c) == c \in Letters
\* [a-z0-9] under the i flag
IsAlnum(c) == IsLetter(c) \/ c \in Digits
\* \s
IsSpace(c) == c \in {" ", "\t", "\n", "\r"}

\* String.prototype.toUpperCase
toUpperCase(str) ==
  [i \in 1..Len(str) |->
     IF IsLetter(str[i]) /\ \E k \in DOMAIN LowerCase : LowerCase[k] = str[i]
     THEN UpperCase[CHOOSE k \in DOMAIN LowerCase : LowerCase[k] = str[i]]
     ELSE str[i]]

\* String.prototype.indexOf for a one-character needle: 0-based, -1 when absent
indexOf(str, c) ==
  IF \E i \in DOMAIN str : str[i] = c
  THEN (CHOOSE i \in DOMAIN str : str[i] = c /\ \A j \in 1..(i - 1) : str[j] # c) - 1
  ELSE -1

RECURSIVE AlnumRunEnd(_, _)
\* a greedy [a-z0-9]* from position i: the first position >= i of str whose
\* character is outside the class, Len(str) + 1 when the run reaches the end
AlnumRunEnd(str, i) ==
  IF i <= Len(str) /\ IsAlnum(str[i]) THEN AlnumRunEnd(str, i + 1) ELSE i

RECURSIVE NonSpaceRunEnd(_, _)
\* a greedy [^\s]* from position i, likewise
NonSpaceRunEnd(str, i) ==
  IF i <= Len(str) /\ ~IsSpace(str[i]) THEN NonSpaceRunEnd(str, i + 1) ELSE i

\* One attempt of the filter pattern at position i of str:
\*   matchEnd:  /([a-z][a-z0-9]*[!]?[:=][^\s]+)($|\s)/gi
\*   otherwise: /([a-z][a-z0-9]*[!]?[:=][^\s]+)\s/gi
\* The position after the match, 0 when the pattern does not match at i.
\* No shorter repetition can succeed where the greedy one fails: the key run
\* is followed by a character outside [a-z0-9], the value run by a space or
\* by the end of the input.
MatchAt(str, i, matchEnd) ==
  IF i > Len(str) \/ ~IsLetter(str[i]) THEN 0
  ELSE
    LET j == AlnumRunEnd(str, i + 1)
        k == IF j <= Len(str) /\ str[j] = "!" THEN j + 1 ELSE j
    IN
    IF k > Len(str) \/ str[k] \notin {":", "="} THEN 0
    ELSE
      LET m == NonSpaceRunEnd(str, k + 1) IN
      IF m = k + 1 THEN 0
      ELSE IF m <= Len(str) THEN m + 1
      ELSE IF matchEnd THEN m
      ELSE 0

RECURSIVE MatchFrom(_, _, _)
\* String.prototype.match with a global pattern: every match, left to right,
\* the search resuming where the last match ended
MatchFrom(str, i, matchEnd) ==
  IF i > Len(str) THEN <<>>
  ELSE
    LET e == MatchAt(str, i, matchEnd) IN
    IF e = 0 THEN MatchFrom(str, i + 1, matchEnd)
    ELSE <<SubSeq(str, i, e - 1)>> \o MatchFrom(str, e, matchEnd)

RECURSIVE split(_, _)
\* String.prototype.split with a one-character separator
split(str, sep) ==
  LET i == indexOf(str, sep) IN
  IF i = -1 THEN <<str>>
  ELSE <<SubSeq(str, 1, i)>> \o split(SubSeq(str, i + 2, Len(str)), sep)

RECURSIVE trim(_)
\* String.prototype.trim
trim(str) ==
  IF str # <<>> /\ IsSpace(str[1]) THEN trim(Tail(str))
  ELSE IF str # <<>> /\ IsSpace(str[Len(str)]) THEN trim(SubSeq(str, 1, Len(str) - 1))
  ELSE str

\* the body of matchTags' forEach: the filter passed to addFilter for one match
TagFilter(filter) ==
  LET separator == IF indexOf(filter, ":") > indexOf(filter, "=") THEN ":" ELSE "="
      parts  == split(filter, separator)
      key0   == parts[1]
      value0 == trim(Join(Tail(parts), <<separator>>))
      bangV  == indexOf(value0, "!") = 0
      bangK  == indexOf(key0, "!") = Len(key0) - 1
      value  == IF bangV THEN SubSeq(value0, 2, Len(value0)) ELSE value0
      key    == IF bangK THEN SubSeq(key0, 1, Len(key0) - 1) ELSE key0
      type   == IF bangV \/ bangK THEN EXCLUDE ELSE INCLUDE
  IN  O([type |-> S(type), key |-> S(key), value |-> S(value)])

\* matchTags(searchTerm, matchEnd): the filters it passes to addFilter, in order
TagFilters(str, matchEnd) ==
  LET match == MatchFrom(str, 1, matchEnd) IN
  [i \in 1..Len(match) |-> TagFilter(match[i])]

---------------------------------------------------------------------------
(* The component: props, state, local storage *)

\* this.props.columns is [keys |-> Object.keys(columns)]: only the column
\* names, in insertion order, are read
Columns(names) == [keys |-> names]

TABLE_COLUMNS_ ==
  <<"T", "A", "B", "L", "E", "_", "C", "O", "L", "U", "M", "N", "S", "_">>
SEARCHABLE_STORAGE_KEY_ ==
  <<"S", "E", "A", "R", "C", "H", "A", "B", "L", "E", "_", "S", "T", "O", "R",
    "A", "G", "E", "_", "K", "E", "Y", "_">>

getTableKey(p) ==
  IF Truthy(p.tableKey) THEN p.tableKey
  ELSE IF Truthy(p.columns)
  THEN S(TABLE_COLUMNS_ \o toUpperCase(Join(p.columns.keys, <<"_">>)))
  ELSE Undefined

getPersistKey(p) ==
  SEARCHABLE_STORAGE_KEY_
    \o (IF Truthy(getTableKey(p)) THEN getTableKey(p).str ELSE <<>>)

\* window.localStorage is a function from the keys that have an item to the
\* item's text
getItem(ls, k)       == IF k \in DOMAIN ls THEN S(ls[k]) ELSE Null
setItem(ls, k, text) == (k :> text) @@ ls
removeItem(ls, k)    == [x \in DOMAIN ls \ {k} |-> ls[x]]

\* the component state as one record
State(f, t, s, h) ==
  [filters |-> f, focusedToken |-> t, searchTerm |-> s, hasFocus |-> h]

\* what a handler leaves behind: the state, the storage, the history of
\* what was persisted, and the error it threw if any
Result(st, ls, hist, err) == [st |-> st, ls |-> ls, hist |-> hist, err |-> err]

\* findIndex(f => f.key === key): 0-based, -1 when no filter has the key
findIndex(fs, key) ==
  IF \E i \in DOMAIN fs : Get(fs[i], "key") = key
  THEN (CHOOSE i \in DOMAIN fs :
          /\ Get(fs[i], "key") = key
          /\ \A j \in 1..(i - 1) : Get(fs[j], "key") # key) - 1
  ELSE -1

\* the value persisted by componentDidUpdate
Persisted(st) == O([searchTerm |-> S(st.searchTerm), filters |-> A(st.filters)])

\* history of a setItem: who wrote what
Written(p, st) == [by |-> p, state |-> Persisted(st)]

\* a variant that writes the search term without the filters
persist_termOnly(p, st, ls, hist) ==
  Result(st,
         setItem(ls, getPersistKey(p),
                 JSONstringify(O([searchTerm |-> S(st.searchTerm)]))),
         (getPersistKey(p) :> Written(p, st)) @@ hist,
         "none")

\* componentDidUpdate, first branch: the state is written to local storage
persist(p, st, ls, hist) ==
  Result(st,
         setItem(ls, getPersistKey(p), JSONstringify(Persisted(st))),
         (getPersistKey(p) :> Written(p, st)) @@ hist,
         "none")

RECURSIVE mergeDefaults(_, _)
\* componentDidUpdate, second branch: each default filter replaces the filter
\* of its key, or is pushed at the end
mergeDefaults(mergedFilters, defaults) ==
  IF defaults = <<>> THEN mergedFilters
  ELSE
    LET defaultFilter == Head(defaults)
        filterIndex   == findIndex(mergedFilters, Get(defaultFilter, "key"))
    IN  mergeDefaults(
          IF filterIndex > -1
          THEN [mergedFilters EXCEPT ![filterIndex + 1] = defaultFilter]
          ELSE Append(mergedFilters, defaultFilter),
          Tail(defaults))

\* componentDidUpdate(prevProps, prevState) after a render with props p and
\* state st, together with the update its own setState causes.
\* filtersChanged: prevState.filters !== this.state.filters (the update
\* installed a new array); propsChanged: prevProps.defaultFilters !==
\* this.props.defaultFilters.
componentDidUpdate(p, prevSt, st, filtersChanged, propsChanged, ls, hist) ==
  IF /\ Truthy(getTableKey(p))
     /\ (prevSt.searchTerm # st.searchTerm \/ filtersChanged)
  THEN persist(p, st, ls, hist)
  ELSE IF propsChanged THEN
    IF ~IsArr(p.defaultFilters)
    THEN Result(st, ls, hist, "TypeError")
    ELSE
      LET merged == [st EXCEPT !.filters = mergeDefaults(@, p.defaultFilters.arr)]
      IN  IF Truthy(getTableKey(p))
          THEN persist(p, merged, ls, hist)
          ELSE Result(merged, ls, hist, "none")
  ELSE Result(st, ls, hist, "none")

\* this.setState(...) from a handler, props unchanged
setState(p, prevSt, st, filtersChanged, ls, hist) ==
  componentDidUpdate(p, prevSt, st, filtersChanged, FALSE, ls, hist)

\* the initial state (the class property `state`)
initialState(p) ==
  State(IF Truthy(p.defaultFilters) THEN p.defaultFilters.arr ELSE <<>>,
        -1, <<>>, FALSE)

Thrown == [ok |-> FALSE]
Value(v) == [ok |-> TRUE, val |-> v]

\* componentDidMount, the body of defaultFilters.forEach for one default
\* filter: the saved filter of the same key takes the default's enum when the
\* default is of type enum, and keeps only the values that are in its enum
mergeSavedFilter(savedStateFilters, defaultFilter) ==
  IF ~IsArr(savedStateFilters) THEN Thrown
  ELSE
    LET fs          == savedStateFilters.arr
        filterIndex == findIndex(fs, Get(defaultFilter, "key"))
    IN
    IF filterIndex = -1 THEN Value(savedStateFilters)
    ELSE
      LET saved    == fs[filterIndex + 1]
          withEnum == IF Get(defaultFilter, "type") = S(ENUM)
                      THEN Put(saved, "enum", Get(defaultFilter, "enum"))
                      ELSE saved
          enum     == Get(withEnum, "enum")
          value    == Get(withEnum, "value")
      IN
      IF ~IsArr(enum) \/ ~IsArr(value) THEN Thrown
      ELSE
        LET allowed == {Get(enum.arr[i], "value") : i \in DOMAIN enum.arr}
            kept    == SelectSeq(value.arr, LAMBDA v : v \in allowed)
        IN  Value(A([fs EXCEPT ![filterIndex + 1] = Put(withEnum, "value", A(kept))]))

RECURSIVE mergeSaved(_, _)
\* componentDidMount, defaultFilters.forEach over the saved filters
mergeSaved(savedStateFilters, defaults) ==
  IF defaults = <<>> THEN Value(savedStateFilters)
  ELSE
    LET r == mergeSavedFilter(savedStateFilters, Head(defaults)) IN
    IF r.ok THEN mergeSaved(r.val, Tail(defaults)) ELSE Thrown

\* componentDidMount up to the catch: the storage after the read, and
\* savedState (undefined without a table key or after a SyntaxError)
readSavedState(p, ls) ==
  IF ~Truthy(getTableKey(p)) THEN [ls |-> ls, savedState |-> Undefined]
  ELSE
    LET item == getItem(ls, getPersistKey(p))
        r    == JSONparse(IF Truthy(item) THEN item.str ELSE <<Null>>)
    IN  IF r.ok THEN [ls |-> ls, savedState |-> r.val]
        ELSE [ls |-> removeItem(ls, getPersistKey(p)), savedState |-> Undefined]

\* a variant that restores the filters and not the search term
restoredState_filtersOnly(st0, savedTerm, savedFilters) ==
  [st0 EXCEPT !.filters = IF Truthy(savedFilters) THEN savedFilters.arr ELSE @]

\* componentDidMount, the argument of its setState: searchTerm and filters are
\* taken from savedState where it has them
restoredState(st0, savedTerm, savedFilters) ==
  [st0 EXCEPT
     !.searchTerm = IF Truthy(savedTerm) THEN savedTerm.str ELSE @,
     !.filters    = IF Truthy(savedFilters) THEN savedFilters.arr ELSE @]

\* componentDidMount with the update its setState causes
componentDidMount(p, ls, hist) ==
  LET st0  == initialState(p)
      read == readSavedState(p, ls)
      savedState == read.savedState
  IN
  IF ~Truthy(savedState) THEN Result(st0, read.ls, hist, "none")
  ELSE
    LET merged == IF ~Nullish(p.defaultFilters)
                  THEN mergeSaved(Get(savedState, "filters"), p.defaultFilters.arr)
                  ELSE Value(Get(savedState, "filters"))
    IN
    IF ~merged.ok THEN Result(st0, read.ls, hist, "TypeError")
    ELSE
      setState(p, st0,
               restoredState(st0, Get(savedState, "searchTerm"), merged.val),
               Truthy(merged.val), read.ls, hist)

---------------------------------------------------------------------------
(* The handlers, as functions of the props p, the state st, the storage ls *)
(* and the history hist                                                    *)

\* addFilter(filter) up to its setState: the next state, or Thrown
addFilterState(p, st, filter) ==
  LET filterIndex == findIndex(st.filters, Get(filter, "key")) IN
  IF filterIndex > -1 THEN
    \* this.props.defaultFilters[filterIndex]
    IF Nullish(p.defaultFilters) THEN Thrown
    ELSE
      LET defaultFilter ==
            IF IsArr(p.defaultFilters) /\ filterIndex + 1 <= Len(p.defaultFilters.arr)
            THEN p.defaultFilters.arr[filterIndex + 1]
            ELSE Undefined
          f == st.filters[filterIndex + 1]
      IN  Value([st EXCEPT !.filters =
                   IF /\ ~Nullish(defaultFilter)
                      /\ Get(defaultFilter, "type") = S(ENUM)
                      /\ Get(f, "type") = S(ENUM)
                   THEN [@ EXCEPT ![filterIndex + 1] =
                           Put(f, "enum", Get(defaultFilter, "enum"))]
                   ELSE @])
  ELSE
    \* persistent filters are always at the front
    Value([st EXCEPT
             !.filters = IF Get(filter, "persistent") = B(TRUE)
                         THEN <<filter>> \o @
                         ELSE Append(@, filter),
             !.focusedToken = -1])

\* addFilter(filter)
addFilter(p, st, filter, ls, hist) ==
  LET next == addFilterState(p, st, filter) IN
  IF next.ok THEN setState(p, st, next.val, TRUE, ls, hist)
  ELSE Result(st, ls, hist, "TypeError")

RECURSIVE addFilters(_, _, _, _, _)
\* match.forEach(... this.addFilter(...)): outside a React event handler each
\* setState is applied at once; an exception ends the loop
addFilters(p, st, fs, ls, hist) ==
  IF fs = <<>> THEN Result(st, ls, hist, "none")
  ELSE
    LET r == addFilter(p, st, Head(fs), ls, hist) IN
    IF r.err # "none" THEN r
    ELSE addFilters(p, r.st, Tail(fs), r.ls, r.hist)

\* the debounced body of matchTags(searchTerm, matchEnd)
matchTags(p, st, term, matchEnd, ls, hist) ==
  addFilters(p, st, TagFilters(term, matchEnd), ls, hist)

\* a variant with the test inverted: it keeps the filter at index alone
without_inverted(fs, index) ==
  IF index + 1 \in DOMAIN fs THEN <<fs[index + 1]>> ELSE <<>>

\* filters.filter((_, i) => i !== index)
without(fs, index) ==
  [i \in 1..(Len(fs) - (IF index + 1 \in DOMAIN fs THEN 1 ELSE 0)) |->
     IF i < index + 1 \/ index + 1 \notin DOMAIN fs THEN fs[i] ELSE fs[i + 1]]

\* removeFilter(index), before its setState callback focuses the input
removeFilter(p, st, index, ls, hist) ==
  setState(p, st,
           [st EXCEPT !.filters = without(@, index), !.focusedToken = -1],
           TRUE, ls, hist)

\* replaceFilter(index, filter): filters.splice(index, 1, filter), index in range
replaceFilter(p, st, index, filter, ls, hist) ==
  setState(p, st, [st EXCEPT !.filters = [@ EXCEPT ![index + 1] = filter]],
           TRUE, ls, hist)

\* a variant that drops the persistent filters too
clear_everything(p, st, ls, hist) ==
  setState(p, st, [st EXCEPT !.filters = <<>>, !.searchTerm = <<>>], TRUE, ls, hist)

\* clear()
clear(p, st, ls, hist) ==
  setState(p, st,
           [st EXCEPT
              !.filters = SelectSeq(@, LAMBDA f :
                            /\ ~Nullish(Get(f, "persistent"))
                            /\ Get(f, "persistent") = B(TRUE)),
              !.searchTerm = <<>>],
           TRUE, ls, hist)

\* a variant that clears as the clear button does
escape_asClear(p, st, ls, hist) ==
  setState(p, st,
           [st EXCEPT
              !.filters = SelectSeq(@, LAMBDA f : Get(f, "persistent") = B(TRUE)),
              !.searchTerm = <<>>],
           TRUE, ls, hist)

\* onKeyDown, Escape: this.setState({searchTerm: ''})
escape(p, st, ls, hist) ==
  setState(p, st, [st EXCEPT !.searchTerm = <<>>], FALSE, ls, hist)

\* onChangeSearchTerm: this.setState({searchTerm: e.target.value})
changeSearchTerm(p, st, value, ls, hist) ==
  setState(p, st, [st EXCEPT !.searchTerm = value], FALSE, ls, hist)

\* onInputFocus
inputFocus(st) == [st EXCEPT !.focusedToken = -1, !.hasFocus = TRUE]

\* hasFocus()
hasFocus(st) == st.focusedToken # -1 \/ st.hasFocus

\* onKeyDown, Backspace: does the first branch (focus the last token) apply;
\* reading .persistent of the last filter throws when there is no filter
backspaceThrows(st) ==
  st.focusedToken = -1 /\ st.searchTerm = <<>> /\ st.filters = <<>>
backspaceFocusesToken(st) ==
  /\ st.focusedToken = -1
  /\ st.searchTerm = <<>>
  /\ st.filters # <<>>
  /\ ~Truthy(Get(st.filters[Len(st.filters)], "persistent"))

---------------------------------------------------------------------------
(* Bounds and inputs *)

\* pending onInputBlur timeouts the model follows at once
MaxBlurTimers == 1

Props(tableKey, columns, defaultFilters) ==
  [tableKey |-> tableKey, columns |-> columns, defaultFilters |-> defaultFilters]

NoProps == Props(Undefined, Undefined, Undefined)
NoCall  == [none |-> TRUE]
Call(term, matchEnd) == [searchTerm |-> term, matchEnd |-> matchEnd]

Op(name)       == [op |-> name, arg |-> Undefined]
OpOn(name, v)  == [op |-> name, arg |-> v]

\* filters of the plain kind: typed as key:value or added by the wrapped component
Filter(type, key, value) == O([type |-> S(type), key |-> S(key), value |-> S(value)])
PersistentFilter(type, key, value) ==
  O([type |-> S(type), key |-> S(key), value |-> S(value), persistent |-> B(TRUE)])

EnumItem(label, value) == O([label |-> S(label), value |-> S(value)])
\* a filter of type enum: the selected values and the values it offers
EnumFilter(key, values, enum) ==
  O([type |-> S(ENUM), key |-> S(key), value |-> A(values), enum |-> A(enum),
     persistent |-> B(TRUE)])

\* texts the user leaves in the search input
TextAX      == <<"a", ":", "x">>
TextAXY     == <<"a", ":", "x", "y">>
TextAXSpace == <<"a", ":", "x", " ">>

FilterA == Filter(INCLUDE, <<"a">>, <<"x">>)
FilterB == PersistentFilter(INCLUDE, <<"b">>, <<"y">>)

ItemV == EnumItem(<<"V">>, <<"v">>)
ItemW == EnumItem(<<"W">>, <<"w">>)
EnumC1 == EnumFilter(<<"c">>, <<S(<<"v">>)>>, <<ItemV, ItemW>>)
EnumC2 == EnumFilter(<<"c">>, <<>>, <<ItemW>>)

\* what a filter token's onReplace passes for filter f: the other type for an
\* include or exclude filter, another selection for an enum filter
Replacements(f) ==
  IF Get(f, "type") = S(INCLUDE) THEN {Put(f, "type", S(EXCLUDE))}
  ELSE IF Get(f, "type") = S(EXCLUDE) THEN {Put(f, "type", S(INCLUDE))}
  ELSE IF IsArr(Get(f, "enum"))
  THEN {Put(f, "value", A(<<>>)),
        Put(f, "value", A([i \in DOMAIN Get(f, "enum").arr |->
                             Get(Get(f, "enum").arr[i], "value")]))}
  ELSE {}

---------------------------------------------------------------------------
(* The actions *)

st == State(filters, focusedToken, searchTerm, hasFocusState)

\* the state, storage and error a handler leaves
Leave(r) ==
  LET left == r IN
  /\ filters' = left.st.filters
  /\ focusedToken' = left.st.focusedToken
  /\ searchTerm' = left.st.searchTerm
  /\ hasFocusState' = left.st.hasFocus
  /\ localStorage' = left.ls
  /\ persisted' = left.hist
  /\ error' = left.err

\* this._inputRef.blur(): a focused input fires onInputBlur, which sets a timeout
Blur ==
  /\ domFocus => blurTimers < MaxBlurTimers
  /\ domFocus' = FALSE
  /\ blurTimers' = IF domFocus THEN blurTimers + 1 ELSE blurTimers

\* this._inputRef.focus() after a handler left r: an input that was not
\* focused fires onInputFocus
FocusAfter(r) ==
  /\ Leave(IF domFocus THEN r ELSE [r EXCEPT !.st = inputFocus(@)])
  /\ domFocus' = TRUE

\* the key of the token that text ends in, not followed by whitespace, if
\* no filter has that key yet; Undefined otherwise
EndTokenKey(text, fs) ==
  LET match == MatchFrom(text, 1, TRUE) IN
  IF /\ match # <<>>
     /\ ~IsSpace(text[Len(text)])
     /\ \E i \in DOMAIN text : SubSeq(text, i, Len(text)) = match[Len(match)]
     /\ findIndex(fs, Get(TagFilter(match[Len(match)]), "key")) = -1
  THEN Get(TagFilter(match[Len(match)]), "key")
  ELSE Undefined

\* history: who wrote what into the item that an instance with props p finds
\* under its key, Undefined when it has no table key or finds no such item
WrittenBefore(p, ls, hist) ==
  IF /\ Truthy(getTableKey(p))
     /\ getPersistKey(p) \in DOMAIN ls
     /\ getPersistKey(p) \in DOMAIN hist
  THEN hist[getPersistKey(p)]
  ELSE Undefined

\* a new instance is constructed and mounted with props p
Mount(p) ==
  /\ ~mounted
  /\ LET r == componentDidMount(p, localStorage, persisted) IN
       /\ Leave(r)
       \* an error thrown by a lifecycle method unmounts the tree
       /\ mounted' = (r.err = "none")
  /\ props' = p
  /\ domFocus' = FALSE
  /\ blurTimers' = 0
  /\ pending' = NoCall
  /\ commit' = Undefined
  /\ lastOp' = OpOn("Mount", WrittenBefore(p, localStorage, persisted))

\* componentWillUnmount; the timers of the instance still fire, on an
\* unmounted instance whose setState does nothing
Unmount ==
  /\ mounted
  /\ mounted' = FALSE
  /\ props' = NoProps
  /\ Leave(Result(initialState(NoProps), localStorage, persisted, "none"))
  /\ domFocus' = FALSE
  /\ blurTimers' = 0
  /\ pending' = NoCall
  /\ commit' = Undefined
  /\ lastOp' = Op("Unmount")

\* the parent renders again with a new defaultFilters array
ParentRender(df) ==
  /\ mounted
  /\ LET p == [props EXCEPT !.defaultFilters = df]
         r == componentDidUpdate(p, st, st, FALSE, TRUE, localStorage, persisted)
     IN
       /\ props' = p
       /\ Leave(r)
       /\ mounted' = (r.err = "none")
       /\ pending' = IF r.err = "none" THEN pending ELSE NoCall
       /\ commit' = IF r.err = "none" THEN commit ELSE Undefined
       /\ blurTimers' = IF r.err = "none" THEN blurTimers ELSE 0
       /\ domFocus' = (domFocus /\ r.err = "none")
  /\ lastOp' = Op("ParentRender")

\* the wrapped component calls its addFilter prop
AddFilter(filter) ==
  /\ mounted
  /\ Leave(addFilter(props, st, filter, localStorage, persisted))
  /\ UNCHANGED <<mounted, props, domFocus, blurTimers, pending, commit>>
  /\ lastOp' = OpOn("addFilter", filter)

\* the wrapped component calls addFilter in a React event handler in which the
\* parent also renders with a new defaultFilters array: one batched update
AddFilterAndRender(filter, df) ==
  /\ mounted
  /\ LET next == addFilterState(props, st, filter)
         p    == [props EXCEPT !.defaultFilters = df]
     IN
       IF ~next.ok
       THEN /\ Leave(Result(st, localStorage, persisted, "TypeError"))
            /\ UNCHANGED <<mounted, props, pending, commit, blurTimers, domFocus>>
       ELSE LET r == componentDidUpdate(p, st, next.val, TRUE, TRUE,
                                        localStorage, persisted) IN
            /\ props' = p
            /\ Leave(r)
            /\ mounted' = (r.err = "none")
            /\ pending' = IF r.err = "none" THEN pending ELSE NoCall
            /\ commit' = IF r.err = "none" THEN commit ELSE Undefined
            /\ blurTimers' = IF r.err = "none" THEN blurTimers ELSE 0
            /\ domFocus' = (domFocus /\ r.err = "none")
  /\ lastOp' = OpOn("addFilterAndRender", filter)

\* a filter token calls onDelete(index)
RemoveFilter(index) ==
  /\ mounted
  /\ index + 1 \in DOMAIN filters
  /\ FocusAfter(removeFilter(props, st, index, localStorage, persisted))
  /\ UNCHANGED <<mounted, props, blurTimers, pending, commit>>
  /\ lastOp' = Op("removeFilter")

\* a filter token calls onReplace(index, filter)
ReplaceFilter(index, filter) ==
  /\ mounted
  /\ index + 1 \in DOMAIN filters
  /\ filter \in Replacements(filters[index + 1])
  /\ Leave(replaceFilter(props, st, index, filter, localStorage, persisted))
  /\ UNCHANGED <<mounted, props, domFocus, blurTimers, pending, commit>>
  /\ lastOp' = Op("replaceFilter")

\* a click on the clear button, rendered when there is something to clear
Clear ==
  /\ mounted
  /\ searchTerm # <<>> \/ Len(filters) > 0
  /\ Leave(clear(props, st, localStorage, persisted))
  /\ UNCHANGED <<mounted, props, domFocus, blurTimers, pending, commit>>
  /\ lastOp' = OpOn("clear", [before |-> Len(filters)])

\* the user edits the text of the focused input: onChangeSearchTerm
Type(value) ==
  /\ mounted
  /\ domFocus
  /\ value # searchTerm
  /\ Leave(changeSearchTerm(props, st, value, localStorage, persisted))
  /\ pending' = Call(value, FALSE)
  /\ UNCHANGED <<mounted, props, domFocus, blurTimers, commit>>
  /\ lastOp' = Op("onChangeSearchTerm")

\* the input gets the focus (a click, or Ctrl/Cmd+F): onInputFocus
FocusInput ==
  /\ mounted
  /\ ~domFocus
  /\ domFocus' = TRUE
  /\ Leave(Result(inputFocus(st), localStorage, persisted, "none"))
  /\ UNCHANGED <<mounted, props, blurTimers, pending, commit>>
  /\ lastOp' = Op("onInputFocus")

\* the input loses the focus: onInputBlur
BlurInput ==
  /\ mounted
  /\ domFocus
  /\ Blur
  /\ Leave(Result(st, localStorage, persisted, "none"))
  /\ UNCHANGED <<mounted, props, pending, commit>>
  /\ lastOp' = Op("onInputBlur")

\* the timeout of onInputBlur fires
BlurTimeout ==
  /\ mounted
  /\ blurTimers > 0
  /\ blurTimers' = blurTimers - 1
  /\ Leave(Result([st EXCEPT !.hasFocus = FALSE], localStorage, persisted, "none"))
  /\ UNCHANGED <<mounted, props, domFocus, pending, commit>>
  /\ lastOp' = Op("onInputBlurTimeout")

\* a filter token gets the focus, which the input loses: onTokenFocus(index)
TokenFocus(index) ==
  /\ mounted
  /\ index + 1 \in DOMAIN filters
  /\ Blur
  /\ Leave(Result([st EXCEPT !.focusedToken = index], localStorage, persisted, "none"))
  /\ UNCHANGED <<mounted, props, pending, commit>>
  /\ lastOp' = Op("onTokenFocus")

\* the focused filter token loses the focus: onTokenBlur
TokenBlur ==
  /\ mounted
  /\ focusedToken # -1
  /\ Leave(Result([st EXCEPT !.focusedToken = -1], localStorage, persisted, "none"))
  /\ UNCHANGED <<mounted, props, domFocus, blurTimers, pending, commit>>
  /\ lastOp' = Op("onTokenBlur")

\* onKeyDown, 'f' with Ctrl or Cmd: this._inputRef.focus()
KeyCtrlF ==
  /\ mounted
  /\ FocusAfter(Result(st, localStorage, persisted, "none"))
  /\ UNCHANGED <<mounted, props, blurTimers, pending, commit>>
  /\ lastOp' = Op("keyCtrlF")

\* onKeyDown, Escape
KeyEscape ==
  /\ mounted
  /\ Blur
  /\ Leave(escape(props, st, localStorage, persisted))
  /\ UNCHANGED <<mounted, props, pending, commit>>
  /\ lastOp' = OpOn("keyEscape", S(searchTerm))

\* onKeyDown, Backspace
KeyBackspace ==
  /\ mounted
  /\ hasFocus(st)
  /\ IF backspaceThrows(st) THEN
       /\ Leave(Result(st, localStorage, persisted, "TypeError"))
       /\ UNCHANGED <<domFocus, blurTimers>>
     ELSE IF backspaceFocusesToken(st) THEN
       /\ Blur
       /\ Leave(Result([st EXCEPT !.focusedToken = Len(st.filters) - 1],
                       localStorage, persisted, "none"))
     ELSE
       /\ FocusAfter(removeFilter(props, st, st.focusedToken, localStorage, persisted))
       /\ UNCHANGED blurTimers
  /\ UNCHANGED <<mounted, props, pending, commit>>
  /\ lastOp' = OpOn("keyBackspace", [after |-> lastOp.op])

\* onKeyDown, Delete
KeyDelete ==
  /\ mounted
  /\ hasFocus(st)
  /\ focusedToken > -1
  /\ FocusAfter(removeFilter(props, st, st.focusedToken, localStorage, persisted))
  /\ UNCHANGED <<mounted, props, blurTimers, pending, commit>>
  /\ lastOp' = OpOn("keyDelete", [after |-> lastOp.op])

\* onKeyDown, Enter: matchTags(this._inputRef.value, true); the input shows
\* this.state.searchTerm
KeyEnter ==
  /\ mounted
  /\ hasFocus(st)
  /\ pending' = Call(searchTerm, TRUE)
  /\ commit' = IF hasFocusState THEN EndTokenKey(searchTerm, filters) ELSE Undefined
  /\ Leave(Result(st, localStorage, persisted, "none"))
  /\ UNCHANGED <<mounted, props, domFocus, blurTimers>>
  /\ lastOp' = Op("keyEnter")

\* the debounce timer fires: the last matchTags call runs
DebounceFire ==
  /\ mounted
  /\ pending # NoCall
  /\ Leave(matchTags(props, st, pending.searchTerm, pending.matchEnd,
                     localStorage, persisted))
  /\ pending' = NoCall
  /\ commit' = Undefined
  /\ UNCHANGED <<mounted, props, domFocus, blurTimers>>
  /\ lastOp' = OpOn("matchTags", commit)

\* window.localStorage is shared by the scripts of the page: another script
\* sets the item of key k to a text that componentDidUpdate never writes
StorageWrite(k, text) ==
  /\ localStorage' = setItem(localStorage, k, text)
  /\ persisted' = removeItem(persisted, k)
  /\ UNCHANGED <<mounted, props, filters, focusedToken, searchTerm,
                 hasFocusState, domFocus, blurTimers, pending, error, commit>>
  /\ lastOp' = Op("storageWrite")

---------------------------------------------------------------------------
(* The specification *)

Init ==
  /\ mounted = FALSE
  /\ props = NoProps
  /\ filters = <<>>
  /\ focusedToken = -1
  /\ searchTerm = <<>>
  /\ hasFocusState = FALSE
  /\ domFocus = FALSE
  /\ blurTimers = 0
  /\ pending = NoCall
  /\ localStorage = <<>>
  /\ error = "none"
  /\ lastOp = Op("init")
  /\ persisted = <<>>
  /\ commit = Undefined

\* Spec: the life of the filter list of instances without a table key
TypedTexts == {TextAXSpace}
AddedFilters == {FilterA, FilterB}
DefaultFilterLists == {Undefined, A(<<EnumC1>>), A(<<EnumC2>>)}
MountProps == {Props(Undefined, Undefined, df) : df \in DefaultFilterLists}

Next ==
  \/ \E p \in MountProps : Mount(p)
  \/ Unmount
  \/ \E df \in DefaultFilterLists : ParentRender(df)
  \/ \E f \in AddedFilters : AddFilter(f)
  \/ \E f \in AddedFilters, df \in DefaultFilterLists : AddFilterAndRender(f, df)
  \/ \E i \in 0..(Len(filters) - 1) : RemoveFilter(i)
  \/ \E i \in 0..(Len(filters) - 1) :
       \E f \in Replacements(filters[i + 1]) : ReplaceFilter(i, f)
  \/ Clear
  \/ FocusInput
  \/ \E value \in TypedTexts : Type(value)
  \/ DebounceFire
  \/ KeyEscape
  \/ BlurTimeout

Spec == Init /\ [][Next]_vars

\* SpecKeys: the keyboard and the focus, for instances without a table key
\* and without default filters
KeysTexts == {TextAX, TextAXY}
KeysProps == Props(Undefined, Undefined, Undefined)

NextKeys ==
  \/ Mount(KeysProps)
  \/ \E f \in AddedFilters : AddFilter(f)
  \/ \E value \in KeysTexts : Type(value)
  \/ DebounceFire
  \/ FocusInput
  \/ BlurInput
  \/ BlurTimeout
  \/ \E i \in 0..(Len(filters) - 1) : TokenFocus(i)
  \/ TokenBlur
  \/ KeyCtrlF
  \/ KeyEscape
  \/ KeyBackspace
  \/ KeyDelete
  \/ KeyEnter

SpecKeys == Init /\ [][NextKeys]_vars

\* SpecStore: persistence, for instances with the table key "t"
StoreTexts == {TextAXSpace}
StoreFilters == {FilterB}
StoreDefaults == {Undefined, A(<<EnumC1>>)}
StoreProps == {Props(S(<<"t">>), Undefined, df) : df \in StoreDefaults}

NextStore ==
  \/ \E p \in StoreProps : Mount(p)
  \/ Unmount
  \/ \E df \in StoreDefaults : ParentRender(df)
  \/ \E f \in StoreFilters : AddFilter(f)
  \/ \E f \in StoreFilters, df \in StoreDefaults : AddFilterAndRender(f, df)
  \/ \E i \in 0..(Len(filters) - 1) : RemoveFilter(i)
  \/ \E i \in 0..(Len(filters) - 1) :
       \E f \in Replacements(filters[i + 1]) : ReplaceFilter(i, f)
  \/ Clear
  \/ FocusInput
  \/ \E value \in StoreTexts : Type(value)
  \/ DebounceFire
  \/ KeyEscape
  \/ BlurTimeout

SpecStore == Init /\ [][NextStore]_vars


\* SpecTags: matchTags on every short text.  An instance without props has
\* the focus and a text in its input; the user commits it with Enter, or by
\* typing a space after it.
MaxTagLen == 4
TagAlphabet == {"a", "1", "!", ":", "=", " "}

RECURSIVE TextsOfLen(_)
TextsOfLen(n) ==
  IF n = 0 THEN {<<>>}
  ELSE {Append(t, c) : t \in TextsOfLen(n - 1), c \in TagAlphabet}

TagTexts == UNION {TextsOfLen(n) : n \in 1..MaxTagLen}

InitTags ==
  /\ mounted = TRUE
  /\ props = NoProps
  /\ filters = <<>>
  /\ focusedToken = -1
  /\ searchTerm \in TagTexts
  /\ hasFocusState = TRUE
  /\ domFocus = TRUE
  /\ blurTimers = 0
  /\ pending = NoCall
  /\ localStorage = <<>>
  /\ error = "none"
  /\ lastOp = Op("onChangeSearchTerm")
  /\ persisted = <<>>
  /\ commit = Undefined

NextTags ==
  \/ KeyEnter
  \/ /\ Len(searchTerm) <= MaxTagLen
     /\ ~IsSpace(searchTerm[Len(searchTerm)])
     /\ Type(Append(searchTerm, " "))
  \/ DebounceFire

SpecTags == InitTags /\ [][NextTags]_vars

\* SpecColumns: instances whose table key is derived from their columns
ColumnsProps ==
  {Props(Undefined, Columns(names), Undefined) :
     names \in {<<<<"a">>, <<"b">>>>, <<<<"a", "_", "b">>>>, <<<<"c">>>>}}

NextColumns ==
  \/ \E p \in ColumnsProps : Mount(p)
  \/ Unmount
  \/ \E f \in AddedFilters : AddFilter(f)
  \/ \E i \in 0..(Len(filters) - 1) : RemoveFilter(i)
  \/ Clear
  \/ FocusInput
  \/ \E value \in TypedTexts : Type(value)
  \/ DebounceFire

SpecColumns == Init /\ [][NextColumns]_vars

\* SpecMount: instances with the table key 't' that are mounted over what
\* earlier instances persisted, with default filters of type enum and of type
\* include, and over items that another script left
MountDefaults == {Undefined, A(<<EnumC1>>), A(<<EnumC2>>), A(<<FilterB>>)}
MountStoreProps == {Props(S(<<"t">>), Undefined, df) : df \in MountDefaults}
MountTexts == {TextAX}

\* texts that are not JSON: the empty text, a lone brace, an object cut off
\* after its first property name
ForeignTexts == {<<>>, <<P("{")>>, <<P("{"), S("searchTerm")>>}

NextMount ==
  \/ \E p \in MountStoreProps : Mount(p)
  \/ Unmount
  \/ \E i \in 0..(Len(filters) - 1) :
       \E f \in Replacements(filters[i + 1]) : ReplaceFilter(i, f)
  \/ FocusInput
  \/ \E value \in MountTexts : Type(value)
  \/ DebounceFire
  \/ \E p \in MountStoreProps, text \in ForeignTexts :
       StorageWrite(getPersistKey(p), text)

SpecMount == Init /\ [][NextMount]_vars

---------------------------------------------------------------------------
(* Properties *)

IsPersistent(f) == Get(f, "persistent") = B(TRUE)

\* the item under the instance's key parses to exactly {searchTerm, filters}
\* of the state
StorageHolds(p, ls, state) ==
  /\ getPersistKey(p) \in DOMAIN ls
  /\ JSONparse(ls[getPersistKey(p)]) = Value(Persisted(state))

\* C1: with a table key, after every update that changed searchTerm or
\* filters (an update of a mounted instance, or the one componentDidMount
\* makes when it restores a saved state), the item under
\* 'SEARCHABLE_STORAGE_KEY_' + table key holds exactly the current
\* {searchTerm, filters}.
C1_PersistedAfterChange ==
  [][ ( /\ mounted'
        /\ Truthy(getTableKey(props'))
        /\ IF lastOp'.op = "Mount"
           THEN st' # initialState(props')
           ELSE searchTerm' # searchTerm \/ filters' # filters )
      => StorageHolds(props', localStorage', st') ]_vars

\* C1 witness: a change of the defaultFilters prop merged a default filter
\* into the filters of an instance with a table key, and the item holds them
C1_Witness ==
  /\ lastOp.op = "ParentRender"
  /\ mounted
  /\ Truthy(getTableKey(props))
  /\ \E i \in DOMAIN filters : Get(filters[i], "type") = S(ENUM)
  /\ \E i \in DOMAIN filters : Get(filters[i], "type") # S(ENUM)
  /\ StorageHolds(props, localStorage, st)

\* C2: an instance mounted with a table key and no defaultFilters, whose item
\* was written by an earlier instance, has after mount the searchTerm and the
\* filters that instance last persisted.
C2_RoundTrip ==
  ( /\ lastOp.op = "Mount"
    /\ lastOp.arg # Undefined
    /\ Nullish(props.defaultFilters) )
  => /\ mounted
     /\ Persisted(st) = lastOp.arg.state

\* C2 witness: such a mount restored a search term and a persistent filter
C2_Witness ==
  /\ lastOp.op = "Mount"
  /\ lastOp.arg # Undefined
  /\ Nullish(props.defaultFilters)
  /\ searchTerm # <<>>
  /\ \E i \in DOMAIN filters : IsPersistent(filters[i])

\* the position of the first ':' or '=' of a text, 0 when it has none
FirstSeparator(t) ==
  IF \E i \in DOMAIN t : t[i] \in {":", "="}
  THEN CHOOSE i \in DOMAIN t :
         /\ t[i] \in {":", "="}
         /\ \A j \in 1..(i - 1) : t[j] \notin {":", "="}
  ELSE 0

\* a token key SEP value: key is a letter followed by letters and digits,
\* optionally followed by '!'; SEP is ':' or '='; value is one or more
\* characters that are not whitespace
IsTagToken(t) ==
  LET sep  == FirstSeparator(t)
      bang == sep > 1 /\ t[sep - 1] = "!"
      last == IF bang THEN sep - 2 ELSE sep - 1     \* the end of the key
  IN  /\ sep > 0
      /\ last >= 1
      /\ IsLetter(t[1])
      /\ \A i \in 2..last : IsAlnum(t[i])
      /\ sep < Len(t)
      /\ \A i \in (sep + 1)..Len(t) : ~IsSpace(t[i])

\* the filter the token stands for: the key is the text before the first
\* separator without a trailing '!', the value the text after it without a
\* leading '!', the type exclude when there was either '!'
TokenFilter(t) ==
  LET sep   == FirstSeparator(t)
      bangK == t[sep - 1] = "!"
      bangV == t[sep + 1] = "!"
  IN  Filter(IF bangK \/ bangV THEN EXCLUDE ELSE INCLUDE,
             SubSeq(t, 1, IF bangK THEN sep - 2 ELSE sep - 1),
             SubSeq(t, IF bangV THEN sep + 2 ELSE sep + 1, Len(t)))

\* C3: when matchTags runs on a committed token key SEP value, it passes to
\* addFilter (which, the filter list being empty, adds it) the filter with the
\* key before the first separator, the value after it, and type exclude for
\* a '!' after the key or before the value, include otherwise.
C3_TokenFilter ==
  ( /\ lastOp.op = "matchTags"
    /\ IsTagToken(trim(searchTerm)) )
  => filters = <<TokenFilter(trim(searchTerm))>>

\* C3, the tokens that hold one kind of separator only
C3_OneSeparatorKind ==
  ( /\ lastOp.op = "matchTags"
    /\ IsTagToken(trim(searchTerm))
    /\ ~({":", "="} \subseteq Range(searchTerm)) )
  => filters = <<TokenFilter(trim(searchTerm))>>

\* C4: when Enter was pressed while the search bar had the focus and the
\* input ended in a key:value token not followed by whitespace, with no filter
\* of that key yet, then once the debounce timer has fired a filter with that
\* key is in state.filters, also when more was typed before it fired.
C4_EnterCommits ==
  (lastOp.op = "matchTags" /\ lastOp.arg # Undefined)
  => findIndex(filters, lastOp.arg) # -1

\* C4, when nothing is typed between the Enter and the timer: the pending
\* call is the one Enter made
C4_EnterCommitsUntyped ==
  [][ ( /\ lastOp'.op = "matchTags"
        /\ lastOp'.arg # Undefined
        /\ pending.matchEnd )
      => findIndex(filters', lastOp'.arg) # -1 ]_vars

\* C5: (1) with the search bar focused, no token focused, an empty search
\* term and a last filter that is not persistent, Backspace sets focusedToken
\* to the index of the last filter and leaves the filters as they are;
\* (2) Backspace or Delete with a token focused removes exactly that filter,
\* keeps the others in their order and sets focusedToken to -1.
C5_BackspaceDelete ==
  [][ /\ ( /\ lastOp'.op = "keyBackspace"
           /\ hasFocusState
           /\ focusedToken = -1
           /\ searchTerm = <<>>
           /\ filters # <<>>
           /\ ~IsPersistent(filters[Len(filters)]) )
         => (focusedToken' = Len(filters) - 1 /\ filters' = filters)
      /\ ( /\ lastOp'.op \in {"keyBackspace", "keyDelete"}
           /\ focusedToken + 1 \in DOMAIN filters )
         => /\ focusedToken' = -1
            /\ Len(filters') = Len(filters) - 1
            /\ \A i \in DOMAIN filters' :
                 filters'[i] = filters[IF i <= focusedToken THEN i ELSE i + 1]
    ]_vars

\* C5 witness: Delete right after a Backspace (which, to leave a token
\* focused, was one that focused the last filter) removed the filter behind
\* the persistent one
C5_Witness ==
  /\ lastOp = OpOn("keyDelete", [after |-> "keyBackspace"])
  /\ focusedToken = -1
  /\ filters = <<FilterB>>

\* C6: an Escape keydown sets searchTerm to '' and leaves filters and
\* focusedToken as they are.
C6_EscapeClearsTerm ==
  [][ lastOp'.op = "keyEscape"
      => /\ searchTerm' = <<>>
         /\ filters' = filters
         /\ focusedToken' = focusedToken ]_vars

\* C6 witness: Escape cleared a typed term while a filter token was focused
C6_Witness ==
  /\ lastOp = OpOn("keyEscape", S(TextAX))
  /\ searchTerm = <<>>
  /\ focusedToken # -1
  /\ filters # <<>>

\* the set of column names of a columns object
ColumnNames(columns) == Range(columns.keys)

\* C7: two instances without a tableKey prop whose columns have different
\* sets of column names have different persist keys: an instance finds under
\* its key only an item written by an instance with the same column names.
C7_ColumnsIdentifyTable ==
  ( /\ lastOp.op = "Mount"
    /\ lastOp.arg # Undefined
    /\ ~Truthy(props.tableKey)
    /\ ~Truthy(lastOp.arg.by.tableKey) )
  => ColumnNames(lastOp.arg.by.columns) = ColumnNames(props.columns)

\* C8: in every state of a mounted instance no persistent filter stands
\* after a filter that is not persistent.
C8_PersistentFirst ==
  mounted =>
    \A i, j \in DOMAIN filters :
      (i < j /\ IsPersistent(filters[j])) => IsPersistent(filters[i])

\* C9: clear() leaves exactly the filters that had persistent === true, in
\* their order, and sets searchTerm to ''.
C9_ClearKeepsPersistent ==
  [][ lastOp'.op = "clear"
      => /\ filters' = SelectSeq(filters, IsPersistent)
         /\ searchTerm' = <<>> ]_vars

\* C9 witness: clear dropped a filter and a search term and kept a
\* persistent filter
C9_Witness ==
  /\ lastOp.op = "clear"
  /\ lastOp.arg.before > Len(filters)
  /\ filters # <<>>
  /\ searchTerm = <<>>

\* C10: addFilter with a filter whose key is already in state.filters
\* completes without error and leaves the number of filters and the key, type
\* and value of each unchanged, with or without a defaultFilters prop.
C10_AddExistingKey ==
  [][ ( /\ lastOp'.op = "addFilter"
        /\ findIndex(filters, Get(lastOp'.arg, "key")) # -1 )
      => /\ error' = "none"
         /\ Len(filters') = Len(filters)
         /\ \A i \in DOMAIN filters :
              /\ Get(filters'[i], "key") = Get(filters[i], "key")
              /\ Get(filters'[i], "type") = Get(filters[i], "type")
              /\ Get(filters'[i], "value") = Get(filters[i], "value") ]_vars

\* C10, for an instance that was given a defaultFilters prop
C10_AddExistingKeyWithDefaults ==
  [][ ( /\ lastOp'.op = "addFilter"
        /\ ~Nullish(props.defaultFilters)
        /\ findIndex(filters, Get(lastOp'.arg, "key")) # -1 )
      => /\ error' = "none"
         /\ Len(filters') = Len(filters)
         /\ \A i \in DOMAIN filters :
              /\ Get(filters'[i], "key") = Get(filters[i], "key")
              /\ Get(filters'[i], "type") = Get(filters[i], "type")
              /\ Get(filters'[i], "value") = Get(filters[i], "value") ]_vars

\* fs is base with the default filters defs merged in: every default is in
\* fs, a filter of base whose key is a default's key has become that default
\* at its place, the other filters of base are kept at their places, and the
\* defaults whose key base did not have follow in their order
DefaultsMergedInto(base, defs, fs) ==
  /\ \A j \in DOMAIN defs : \E i \in DOMAIN fs : fs[i] = defs[j]
  /\ Len(fs) >= Len(base)
  /\ \A i \in DOMAIN base :
       IF \E j \in DOMAIN defs : Get(defs[j], "key") = Get(base[i], "key")
       THEN \E j \in DOMAIN defs :
              /\ Get(defs[j], "key") = Get(base[i], "key")
              /\ fs[i] = defs[j]
       ELSE fs[i] = base[i]
  /\ SubSeq(fs, Len(base) + 1, Len(fs))
       = SelectSeq(defs, LAMBDA d : findIndex(base, Get(d, "key")) = -1)

\* the filters that the update of the step starts from: state.filters, with
\* the filter added when addFilter was called in the same update
FiltersOfUpdate ==
  IF lastOp'.op = "addFilterAndRender"
  THEN LET next == addFilterState(props, st, lastOp'.arg)
       IN  IF next.ok THEN next.val.filters ELSE filters
  ELSE filters

\* C11: after an update in which the defaultFilters prop became a new list,
\* alone or together with a change of state.filters, every filter of the new
\* list is in state.filters: in place of the filter of its key, or appended
\* when no filter had its key; the other filters are kept in order.
C11_DefaultsMerged ==
  [][ ( /\ lastOp'.op \in {"ParentRender", "addFilterAndRender"}
        /\ IsArr(props'.defaultFilters)
        /\ error' = "none" )
      => DefaultsMergedInto(FiltersOfUpdate, props'.defaultFilters.arr, filters')
    ]_vars

\* C11, for an update in which only the defaultFilters prop changed
C11_DefaultsMergedPropsOnly ==
  [][ ( /\ lastOp'.op = "ParentRender"
        /\ IsArr(props'.defaultFilters)
        /\ error' = "none" )
      => DefaultsMergedInto(filters, props'.defaultFilters.arr, filters')
    ]_vars

\* the values an enum filter offers
EnumValues(f) == {Get(Get(f, "enum").arr[i], "value") : i \in DOMAIN Get(f, "enum").arr}

\* C12: a mount that finds a saved state and has defaultFilters completes
\* without error, and then every filter whose key is the key of a default
\* filter of type enum has that default's enum list and only values that the
\* enum offers.
C12_MountMergesDefaults ==
  ( /\ lastOp.op = "Mount"
    /\ lastOp.arg # Undefined
    /\ ~Nullish(props.defaultFilters) )
  => /\ error = "none"
     /\ mounted
     /\ \A i \in DOMAIN filters, j \in DOMAIN props.defaultFilters.arr :
          LET f == filters[i]
              d == props.defaultFilters.arr[j]
          IN  ( /\ Get(d, "type") = S(ENUM)
                /\ Get(f, "key") = Get(d, "key") )
              => /\ Get(f, "enum") = Get(d, "enum")
                 /\ IsArr(Get(f, "value"))
                 /\ \A k \in DOMAIN Get(f, "value").arr :
                      Get(f, "value").arr[k] \in EnumValues(d)

\* C12, for default filters that are all of type enum
C12_MountMergesEnumDefaults ==
  ( /\ lastOp.op = "Mount"
    /\ lastOp.arg # Undefined
    /\ ~Nullish(props.defaultFilters)
    /\ \A j \in DOMAIN props.defaultFilters.arr :
         Get(props.defaultFilters.arr[j], "type") = S(ENUM) )
  => C12_MountMergesDefaults

\* the step mounts an instance with a table key over an item that is not
\* valid JSON
MountOverInvalidItem ==
  /\ lastOp'.op = "Mount"
  /\ Truthy(getTableKey(props'))
  /\ getPersistKey(props') \in DOMAIN localStorage
  /\ ~JSONparse(localStorage[getPersistKey(props')]).ok

\* C13: a mount that finds under its key an item that is not valid JSON
\* removes the item, does not fail, and leaves the initial state: filters =
\* defaultFilters or [], searchTerm = '', focusedToken = -1.
C13_InvalidItemRemoved ==
  [][ MountOverInvalidItem
      => /\ getPersistKey(props') \notin DOMAIN localStorage'
         /\ error' = "none"
         /\ mounted'
         /\ st' = initialState(props') ]_vars

\* C13, for an item that is not the empty text
C13_NonEmptyInvalidItemRemoved ==
  [][ ( /\ MountOverInvalidItem
        /\ localStorage[getPersistKey(props')] # <<>> )
      => /\ getPersistKey(props') \notin DOMAIN localStorage'
         /\ error' = "none"
         /\ mounted'
         /\ st' = initialState(props') ]_vars

\* C13, without the removal: no mount over such an item fails or leaves
\* another state than the initial one
C13_InvalidItemIgnored ==
  [][ MountOverInvalidItem
      => /\ error' = "none"
         /\ mounted'
         /\ st' = initialState(props') ]_vars

===========================================================================
